---- MODULE Spec2Model ----
(***************************************************************************)
(* Model of the V-Ray result viewer (src/main.py): the result loader, the  *)
(* image-pair metrics, the report aggregation and the report command of    *)
(* MainWindow.                                                             *)
(*                                                                         *)
(* Conventions.  A Python object whose type matters to a comparison is a   *)
(* record [type, val].  Floats are exact rationals [num, den]; the SSIM    *)
(* score is an integer number of ten-thousandths.  A path string is the    *)
(* sequence of its components.  A JSON object is a function from its keys. *)
(***************************************************************************)
EXTENDS Integers, Sequences, FiniteSets, TLC

\* ------------------------------------------------------------------ bounds
MaxDocSize == 5    \* tests + frame groups + render elements of a written document
MaxDelta == 1      \* largest deltaCount of the single-sample documents

\* ------------------------------------------------------- Python primitives
PyNone == [type |-> "NoneType", val |-> <<>>]
PyStr(s) == [type |-> "str", val |-> s]
PyPath(parts) == [type |-> "Path", val |-> parts]
PyEnum(member) == [type |-> "ProblemLevel", val |-> member]

\* == of two Python objects: objects of unrelated types are never equal
PyEq(a, b) == a.type = b.type /\ a.val = b.val
PyNe(a, b) == ~PyEq(a, b)

\* bool(x) as used by "if self.report:" and "if metrics:"
Truthy(x) ==
    CASE x.type = "NoneType" -> FALSE
      [] x.type = "list" -> Len(x.val) > 0
      [] OTHER -> TRUE

\* dict.get(key, default)
Get(d, k, default) == IF k \in DOMAIN d THEN d[k] ELSE default

Rat(n, d) == [num |-> n, den |-> d]
RatGt(a, b) == a.num * b.den > b.num * a.den

RECURSIVE SumOver(_, _)
SumOver(f, S) ==
    IF S = {} THEN 0
    ELSE LET x == CHOOSE y \in S : TRUE IN f[x] + SumOver(f, S \ {x})

SeqSum(s) == SumOver(s, DOMAIN s)

RECURSIVE Concat(_)
Concat(ss) == IF ss = <<>> THEN <<>> ELSE Head(ss) \o Concat(Tail(ss))

\* ------------------------------------------------------------ enumeration
GOOD == PyEnum("GOOD")
SOFT == PyEnum("SOFT")
HARD == PyEnum("HARD")

\* ------------------------------------------------------------- file system
\* What the paths named by the documents hold.  An image is its grayscale
\* pixel array as cv2.imread(..., IMREAD_GRAYSCALE) returns it.
\* An h x w frame whose first k pixels have the value v, the others 10
Img(h, w, k, v) ==
    [kind |-> "image", shape |-> <<h, w>>,
     px |-> [i \in 1..(h * w) |-> IF i <= k THEN v ELSE 10]]

Disk ==
    [p \in {"ref.png", "same.png", "one.png", "half.png", "all.png", "small.png", "corrupt.png"} |->
        CASE p = "ref.png" -> Img(8, 8, 0, 0)
          [] p = "same.png" -> Img(8, 8, 0, 0)
          [] p = "one.png" -> Img(8, 8, 8, 30)
          [] p = "half.png" -> Img(8, 8, 32, 200)
          [] p = "all.png" -> Img(8, 8, 64, 250)
          [] p = "small.png" -> Img(7, 7, 0, 0)
          [] OTHER -> [kind |-> "garbage", shape |-> <<0, 0>>, px |-> <<>>]]

\* Path.is_file() and Path.exists(); Path("") is ".", a directory
IsFile(p) == p \in DOMAIN Disk
Exists(p) == p = "" \/ p \in DOMAIN Disk

\* cv2.imread: the pixel array, or None when the file cannot be decoded
imread(p) == IF Disk[p].kind = "image" THEN Disk[p] ELSE [kind |-> "None", shape |-> <<0, 0>>, px |-> <<>>]

\* skimage structural_similarity, in ten-thousandths: identical frames score
\* 1.0; the score of a differing pair is a fixed table of the library
ssim(run_image, ref_image) ==
    LET nd == Cardinality({ i \in DOMAIN run_image.px : run_image.px[i] /= ref_image.px[i] })
    IN CASE nd = 0 -> 10000
         [] nd = 8 -> 9501
         [] nd = Len(run_image.px) -> 9500
         [] OTHER -> 8000

\* ------------------------------------------------------------------ loader
\* RenderElement built from one render-element payload of a frame group
load_render_element(json_data, frame) ==
    [frame |-> frame,
     name |-> Get(json_data, "name", ""),
     delta_count |-> Get(json_data, "deltaCount", 0),
     status |-> Get(json_data, "status", ""),
     exit_code |-> Get(json_data, "exitCode", 0),
     ref_file |-> Get(json_data, "refFile", ""),
     run_file |-> Get(json_data, "runFile", "")]

\* TestDiff objects, one per frame group, in document order
LoadDiffs(json_data) ==
    [g \in DOMAIN json_data |->
        LET diff_item == json_data[g]
            frame == Get(diff_item, "frame", 0)
            payloads == Get(diff_item, "renderElements", <<>>)
        IN [render_elements |->
               [e \in DOMAIN payloads |-> load_render_element(payloads[e], frame)]]]

\* Variant: render_elements[name] = [element], the list replaced, not extended
DictAppend_Overwrite(d, name, element) ==
    IF \E i \in DOMAIN d : d[i].name = name
    THEN [i \in DOMAIN d |->
             IF d[i].name = name
             THEN [d[i] EXCEPT !.elements = <<element>>]
             ELSE d[i]]
    ELSE Append(d, [name |-> name, elements |-> <<element>>])

\* render_elements[name].append(element) on an insertion-ordered dict, kept
\* as the sequence of its items
DictAppend(d, name, element) ==
    IF \E i \in DOMAIN d : d[i].name = name
    THEN [i \in DOMAIN d |->
             IF d[i].name = name
             THEN [d[i] EXCEPT !.elements = Append(@, element)]
             ELSE d[i]]
    ELSE Append(d, [name |-> name, elements |-> <<element>>])

RECURSIVE GroupByName(_, _)
GroupByName(d, elements) ==
    IF elements = <<>> THEN d
    ELSE GroupByName(DictAppend(d, Head(elements).name, Head(elements)), Tail(elements))

\* Variant: an ascending sort that puts an element before the elements of
\* equal frame already placed, so that ties come out in reverse input order
InsertByFrame_BeforeEqual(sorted, x) ==
    LET before == { i \in DOMAIN sorted : sorted[i].frame < x.frame }
        k == Cardinality(before)
    IN SubSeq(sorted, 1, k) \o <<x>> \o SubSeq(sorted, k + 1, Len(sorted))

\* list.sort(key=frame): stable, ascending
InsertByFrame(sorted, x) ==
    LET before == { i \in DOMAIN sorted : sorted[i].frame <= x.frame }
        k == Cardinality(before)
    IN SubSeq(sorted, 1, k) \o <<x>> \o SubSeq(sorted, k + 1, Len(sorted))

RECURSIVE SortByFrame(_, _)
SortByFrame(sorted, rest) ==
    IF rest = <<>> THEN sorted
    ELSE SortByFrame(InsertByFrame(sorted, Head(rest)), Tail(rest))

load_test_diff(json_data) ==
    LET diffs == LoadDiffs(json_data)
        all == Concat([g \in DOMAIN diffs |-> diffs[g].render_elements])
        render_elements == GroupByName(<<>>, all)
    IN [i \in DOMAIN render_elements |->
           [render_elements[i] EXCEPT !.elements = SortByFrame(<<>>, @)]]

\* Path.parent of a path given by its components
Parent(parts) == IF parts = <<>> THEN <<>> ELSE SubSeq(parts, 1, Len(parts) - 1)

load_test_result(json_data) ==
    [exit_code |-> Get(json_data, "exitCode", 0),
     file_name |-> Get(json_data, "fileName", ""),
     file_path |-> Get(json_data, "file", <<>>),
     status |-> Get(json_data, "status", ""),
     diff |-> load_test_diff(Get(json_data, "diff", <<>>))]

\* int(token) of one colon-separated field of the duration string
IntLiterals == ("0" :> 0) @@ ("1" :> 1) @@ ("30" :> 30)
DefaultDuration == <<"0", "0", "0">>

\* hours, minutes, seconds = map(int, duration_str.split(":")) raises
\* ValueError unless there are exactly three integer fields
DurationParses(fields) ==
    Len(fields) = 3 /\ \A i \in DOMAIN fields : fields[i] \in DOMAIN IntLiterals

HeaderParses(json_data) ==
    DurationParses(Get(Get(json_data, "version", <<>>), "duration", DefaultDuration))

load_test_header(json_data) ==
    LET version == Get(json_data, "version", <<>>)
        f == Get(version, "duration", DefaultDuration)
    IN [total_tests |-> Get(json_data, "allTestsCount", 0),
        title |-> Get(json_data, "title", "Results"),
        version |-> version,
        duration |-> 3600 * IntLiterals[f[1]] + 60 * IntLiterals[f[2]] + IntLiterals[f[3]]]

\* ----------------------------------------------------------------- metrics
Raise(exc) == [kind |-> "raise", exc |-> exc]
NotComputable == [kind |-> "None", exc |-> ""]

\* np.mean((run_image - ref_image) ** 2) on uint8 arrays: the difference and
\* the square both wrap modulo 256
SquaredDiff(a, b) == (((a - b) % 256) * ((a - b) % 256)) % 256

Metrics(total_pixels, diff_pixels, mse, ssim_value) ==
    [kind |-> "Metrics", exc |-> "",
     total_pixels_count |-> total_pixels, diff_pixels_count |-> diff_pixels,
     mse |-> mse, ssim |-> ssim_value]

ComputeMetrics(run_file, ref_file) ==
    LET ref_exists == IsFile(ref_file) /\ Exists(ref_file)
        run_exists == IsFile(run_file) /\ Exists(run_file)
    IN IF ~ref_exists \/ ~run_exists THEN NotComputable
       ELSE LET run_image == imread(run_file)
                ref_image == imread(ref_file)
            IN CASE run_image.kind = "None" -> Raise("TypeError")    \* len(None)
                 [] run_image.shape[1] /= run_image.shape[1] -> NotComputable
                 [] ref_image.kind = "None" -> Raise("cv2.error")    \* absdiff(array, None)
                 [] ref_image.shape /= run_image.shape -> Raise("cv2.error")
                 [] OTHER ->
                      LET n == Len(run_image.px)
                          diff_image == [i \in 1..n |->
                              IF run_image.px[i] /= ref_image.px[i] THEN 1 ELSE 0]
                          sq == [i \in 1..n |-> SquaredDiff(run_image.px[i], ref_image.px[i])]
                      IN Metrics(n, SeqSum(diff_image), Rat(SeqSum(sq), n),
                                 ssim(run_image, ref_image))

\* The paths the documents name, and the outcome of ComputeMetrics on each pair
ImagePaths == DOMAIN Disk \cup {"", "missing.png"}
MetricsOf == [run_file \in ImagePaths, ref_file \in ImagePaths |-> ComputeMetrics(run_file, ref_file)]

\* "if metrics:" - a Metrics instance is always true, None is false
MetricsTruthy(metrics) == metrics.kind = "Metrics"

\* ------------------------------------------------------------- aggregation
\* Variant: the failed row zero-fills the upstream delta count too
ReportEntry_ZeroDelta(dir, test, name, element, metrics) ==
    IF MetricsTruthy(metrics)
    THEN [directory |-> dir,
          test |-> test,
          element |-> name,
          mse |-> metrics.mse,
          SSIM |-> metrics.ssim,
          diff_percentage |-> Rat(metrics.diff_pixels_count * 100, metrics.total_pixels_count),
          diff_count |-> metrics.diff_pixels_count,
          diff_count_pre_computed |-> element.delta_count,
          pixel_count |-> metrics.total_pixels_count,
          problem_level |-> IF metrics.ssim > 9500 THEN GOOD ELSE SOFT,
          level |-> (metrics.diff_pixels_count * 20) \div metrics.total_pixels_count,
          message |-> element.status]
    ELSE [directory |-> dir,
          test |-> test,
          element |-> name,
          mse |-> Rat(0, 1),
          SSIM |-> 0,
          diff_percentage |-> Rat(0, 1),
          diff_count |-> 0,
          diff_count_pre_computed |-> 0,
          pixel_count |-> 0,
          problem_level |-> HARD,
          level |-> 20,
          message |-> "Rendering failed"]

\* Variant: GOOD from SSIM >= 0.95
ReportEntry_GoodAtBoundary(dir, test, name, element, metrics) ==
    IF MetricsTruthy(metrics)
    THEN [directory |-> dir,
          test |-> test,
          element |-> name,
          mse |-> metrics.mse,
          SSIM |-> metrics.ssim,
          diff_percentage |-> Rat(metrics.diff_pixels_count * 100, metrics.total_pixels_count),
          diff_count |-> metrics.diff_pixels_count,
          diff_count_pre_computed |-> element.delta_count,
          pixel_count |-> metrics.total_pixels_count,
          problem_level |-> IF metrics.ssim >= 9500 THEN GOOD ELSE SOFT,
          level |-> (metrics.diff_pixels_count * 20) \div metrics.total_pixels_count,
          message |-> element.status]
    ELSE [directory |-> dir,
          test |-> test,
          element |-> name,
          mse |-> Rat(0, 1),
          SSIM |-> 0,
          diff_percentage |-> Rat(0, 1),
          diff_count |-> 0,
          diff_count_pre_computed |-> element.delta_count,
          pixel_count |-> 0,
          problem_level |-> HARD,
          level |-> 20,
          message |-> "Rendering failed"]

\* Variant: the level rounded to the nearest bucket instead of truncated
ReportEntry_RoundedLevel(dir, test, name, element, metrics) ==
    IF MetricsTruthy(metrics)
    THEN [directory |-> dir,
          test |-> test,
          element |-> name,
          mse |-> metrics.mse,
          SSIM |-> metrics.ssim,
          diff_percentage |-> Rat(metrics.diff_pixels_count * 100, metrics.total_pixels_count),
          diff_count |-> metrics.diff_pixels_count,
          diff_count_pre_computed |-> element.delta_count,
          pixel_count |-> metrics.total_pixels_count,
          problem_level |-> IF metrics.ssim > 9500 THEN GOOD ELSE SOFT,
          level |-> (2 * metrics.diff_pixels_count * 20 + metrics.total_pixels_count) \div (2 * metrics.total_pixels_count),
          message |-> element.status]
    ELSE [directory |-> dir,
          test |-> test,
          element |-> name,
          mse |-> Rat(0, 1),
          SSIM |-> 0,
          diff_percentage |-> Rat(0, 1),
          diff_count |-> 0,
          diff_count_pre_computed |-> element.delta_count,
          pixel_count |-> 0,
          problem_level |-> HARD,
          level |-> 20,
          message |-> "Rendering failed"]

\* The ReportEntry built for one sample, given the outcome of ComputeMetrics
ReportEntry(dir, test, name, element, metrics) ==
    IF MetricsTruthy(metrics)
    THEN [directory |-> dir,
          test |-> test,
          element |-> name,
          mse |-> metrics.mse,
          SSIM |-> metrics.ssim,
          diff_percentage |-> Rat(metrics.diff_pixels_count * 100, metrics.total_pixels_count),
          diff_count |-> metrics.diff_pixels_count,
          diff_count_pre_computed |-> element.delta_count,
          pixel_count |-> metrics.total_pixels_count,
          problem_level |-> IF metrics.ssim > 9500 THEN GOOD ELSE SOFT,
          level |-> (metrics.diff_pixels_count * 20) \div metrics.total_pixels_count,
          message |-> element.status]
    ELSE [directory |-> dir,
          test |-> test,
          element |-> name,
          mse |-> Rat(0, 1),
          SSIM |-> 0,
          diff_percentage |-> Rat(0, 1),
          diff_count |-> 0,
          diff_count_pre_computed |-> element.delta_count,
          pixel_count |-> 0,
          problem_level |-> HARD,
          level |-> 20,
          message |-> "Rendering failed"]

\* The tree built by populate_tree_view: one Directory item per distinct
\* parent directory, in order of first appearance, each holding the
\* TestResult items of its tests in load order
TreeAppend(items, test_result) ==
    LET directory == PyPath(Parent(test_result.file_path))
        test_item == [type |-> "TestResult", text |-> test_result.file_name,
                      data |-> test_result]
    IN IF \E i \in DOMAIN items : PyEq(items[i].data, directory)
       THEN [i \in DOMAIN items |->
                IF PyEq(items[i].data, directory)
                THEN [items[i] EXCEPT !.children = Append(@, test_item)]
                ELSE items[i]]
       ELSE Append(items, [type |-> "Directory", data |-> directory,
                           children |-> <<test_item>>])

RECURSIVE PopulateTree(_, _)
PopulateTree(items, results) ==
    IF results = <<>> THEN items
    ELSE PopulateTree(TreeAppend(items, Head(results)), Tail(results))

populate_tree_view(results) == PopulateTree(<<>>, results)

\* The samples GenerateReport visits, in its iteration order
Visits(root) ==
    Concat([r \in DOMAIN root |->
        LET child == root[r] IN
        IF child.type /= "Directory" THEN <<>>
        ELSE Concat([t \in DOMAIN child.children |->
            LET test_result == child.children[t] IN
            IF test_result.type /= "TestResult" THEN <<>>
            ELSE Concat([d \in DOMAIN test_result.data.diff |->
                LET item == test_result.data.diff[d] IN
                [e \in DOMAIN item.elements |->
                    [dir |-> child.data, test |-> test_result.text,
                     name |-> item.name, element |-> item.elements[e]]]])])])

\* The loop body over the visited samples: the first exception ends the walk
RECURSIVE Aggregate(_, _)
Aggregate(report, visits) ==
    IF visits = <<>> THEN [report |-> report, exc |-> ""]
    ELSE LET v == Head(visits)
             metrics == MetricsOf[v.element.run_file, v.element.ref_file]
         IN IF metrics.kind = "raise"
            THEN [report |-> report, exc |-> metrics.exc]
            ELSE Aggregate(Append(report, ReportEntry(v.dir, v.test, v.name, v.element, metrics)),
                           Tail(visits))

GenerateReport(root, limit) ==
    LET n == IF limit = 0 THEN Len(root) ELSE limit
    IN Aggregate(<<>>, Visits(SubSeq(root, 1, n)))

\* ------------------------------------------------------ summary statistics
\* the text "emulation", as a path string of one component
EXCLUDED == PyStr(<<"emulation">>)
TopN == 5
HighDiff == Rat(50, 1)

\* DataFrame.nlargest(n, 'mse'): descending, ties in original order
InsertByMse(sorted, x) ==
    LET k == Cardinality({ i \in DOMAIN sorted : ~RatGt(x.mse, sorted[i].mse) })
    IN SubSeq(sorted, 1, k) \o <<x>> \o SubSeq(sorted, k + 1, Len(sorted))

RECURSIVE SortByMse(_, _)
SortByMse(sorted, rest) ==
    IF rest = <<>> THEN sorted
    ELSE SortByMse(InsertByMse(sorted, Head(rest)), Tail(rest))

nlargest(n, rows) ==
    LET s == SortByMse(<<>>, rows)
    IN SubSeq(s, 1, IF Len(s) < n THEN Len(s) ELSE n)

\* groupby('directory').size()
GroupSize(rows) ==
    [d \in { rows[i].directory : i \in DOMAIN rows } |->
        Cardinality({ i \in DOMAIN rows : rows[i].directory = d })]

NoStats ==
    [complete |-> FALSE, total_entries |-> 0,
     passed_tests |-> <<>>, soft_diff_tests |-> <<>>, high_diff_tests |-> <<>>,
     failed_tests_ratio |-> Rat(0, 1), soft_diff_tests_ratio |-> Rat(0, 1),
     passed_tests_ratio |-> Rat(0, 1),
     failed_tests |-> <<>>, failed_tests_by_directory |-> <<>>,
     top_mse_tests |-> <<>>]

\* The statistics generate_report derives from the filtered table
Summary(df) ==
    LET total_entries == Len(df)
        IsLevel(r, lv) == PyEq(r.problem_level, lv)
        hard == SelectSeq(df, LAMBDA r : IsLevel(r, HARD))
        soft == SelectSeq(df, LAMBDA r : IsLevel(r, SOFT))
        good == SelectSeq(df, LAMBDA r : IsLevel(r, GOOD))
        failed == SelectSeq(df, LAMBDA r : IsLevel(r, PyStr("ProblemLevel.HARD")))
    IN [complete |-> TRUE, total_entries |-> total_entries,
        passed_tests |-> good, soft_diff_tests |-> soft,
        high_diff_tests |-> SelectSeq(df, LAMBDA r : RatGt(r.diff_percentage, HighDiff)),
        failed_tests_ratio |-> Rat(Len(hard), total_entries),
        soft_diff_tests_ratio |-> Rat(Len(soft), total_entries),
        passed_tests_ratio |-> Rat(Len(good), total_entries),
        failed_tests |-> failed,
        failed_tests_by_directory |-> GroupSize(failed),
        top_mse_tests |-> nlargest(TopN, df)]

\* The statistics printed before the division by the row count
PartialSummary(df) ==
    [NoStats EXCEPT !.passed_tests = SelectSeq(df, LAMBDA r : PyEq(r.problem_level, GOOD)),
                    !.soft_diff_tests = SelectSeq(df, LAMBDA r : PyEq(r.problem_level, SOFT)),
                    !.high_diff_tests = SelectSeq(df, LAMBDA r : RatGt(r.diff_percentage, HighDiff))]

\* DataFrame.to_csv: one line per row; a Path and an enumeration member are
\* written as their str()
EnumStr == [GOOD |-> "ProblemLevel.GOOD", SOFT |-> "ProblemLevel.SOFT", HARD |-> "ProblemLevel.HARD"]

CsvText(v) ==
    CASE v.type = "Path" -> PyStr(IF v.val = <<>> THEN <<".">> ELSE v.val)
      [] v.type = "ProblemLevel" -> PyStr(EnumStr[v.val])
      [] OTHER -> v

to_csv(df) ==
    [exists |-> TRUE,
     rows |-> [i \in DOMAIN df |->
                  [df[i] EXCEPT !.directory = CsvText(@), !.problem_level = CsvText(@)]]]

\* ------------------------------------------------------------ environment
DefaultFolder == "hip_output"
OtherFolder == "run2"
Folders == {DefaultFolder, OtherFolder}

Payload(name, run, ref, delta, status) ==
    [name |-> name, deltaCount |-> delta, status |-> status, exitCode |-> 0,
     refFile |-> ref, runFile |-> run]

\* The render-element payloads the test runner writes
Payloads ==
    { Payload("beauty", "same.png", "ref.png", 0, "ok"),
      Payload("beauty", "missing.png", "ref.png", 5, "failed"),
      Payload("diffuse", "corrupt.png", "ref.png", 1, "ok") }

TestFiles ==
    { [file |-> <<"emulation", "a.vrscene">>, fileName |-> "a"],
      [file |-> <<"scenes", "b.vrscene">>, fileName |-> "b"] }

Durations == { <<"1", "30">>, <<"1", "x", "0">> }

TestEntry(f) == [file |-> f.file, fileName |-> f.fileName, exitCode |-> 0,
                 status |-> "done", diff |-> <<>>]

\* results.json of the folder the viewer opens at start-up
DefaultDoc ==
    [version |-> <<>>,
     tests |-> << [TestEntry([file |-> <<"scenes", "b.vrscene">>, fileName |-> "b"])
                    EXCEPT !.diff = << [frame |-> 0, renderElements |->
                        << Payload("beauty", "same.png", "ref.png", 0, "ok"),
                           Payload("diffuse", "one.png", "ref.png", 8, "diff") >>] >>] >>]

EmptyDoc == [version |-> <<>>, tests |-> <<>>]

GroupCount(doc) == SeqSum([i \in DOMAIN doc.tests |-> Len(doc.tests[i].diff)])

\* The frame indices the test runner writes
FrameIndices == {0, 1}

PayloadCount(doc) ==
    LET tests == doc.tests
        PerTest(t) == SeqSum([g \in DOMAIN t.diff |-> Len(t.diff[g].renderElements)])
    IN SeqSum([i \in DOMAIN tests |-> PerTest(tests[i])])

DocSize(doc) == Len(doc.tests) + GroupCount(doc) + PayloadCount(doc)

\* ------------------------------------------------------------------- state
VARIABLES
    results,        \* results.json of each folder
    producing,      \* the test run writing OtherFolder has not finished
    report_csv,     \* report.csv of each folder
    results_json,   \* MainWindow.results_json
    test_header,    \* MainWindow.test_header
    test_results,   \* MainWindow.test_results
    cwd,            \* MainWindow.cwd
    model,          \* the Directory items under the tree model's root
    report,         \* MainWindow.report
    _report,        \* MainWindow._report
    report_df,      \* MainWindow.report_df
    stats,          \* the summary statistics of the last report
    outcome         \* the last handler and the exception it raised

vars == <<results, producing, report_csv, results_json, test_header, test_results,
          cwd, model, report, _report, report_df, stats, outcome>>

session == <<results_json, test_header, test_results, cwd, model>>
reporting == <<report, _report, report_df, stats, report_csv>>

NoFile == [exists |-> FALSE, rows |-> <<>>]
Done(op, exc) == [op |-> op, exc |-> exc]

\* ----------------------------------------------------------------- actions
\* MainWindow.__init__: the fields, then load(Path("D:/Vray/hip_output"))
Init ==
    /\ results = [f \in Folders |-> IF f = DefaultFolder THEN DefaultDoc ELSE EmptyDoc]
    /\ producing = TRUE
    /\ report_csv = [f \in Folders |-> NoFile]
    /\ results_json = DefaultDoc
    /\ test_header = load_test_header(DefaultDoc)
    /\ test_results = [i \in DOMAIN DefaultDoc.tests |-> load_test_result(DefaultDoc.tests[i])]
    /\ cwd = DefaultFolder
    /\ model = populate_tree_view(test_results)
    /\ report = PyNone
    /\ _report = PyNone
    /\ report_df = PyNone
    /\ stats = NoStats
    /\ outcome = Done("__init__", "")

\* The test runner starts the entry of one more test
ProducerAddTest ==
    /\ producing
    /\ DocSize(results[OtherFolder]) < MaxDocSize
    /\ \E f \in TestFiles :
          results' = [results EXCEPT ![OtherFolder].tests = Append(@, TestEntry(f))]
    /\ UNCHANGED <<producing, session, reporting, outcome>>

\* The test runner starts one more frame group of its current test
ProducerAddGroup ==
    /\ producing
    /\ LET tests == results[OtherFolder].tests
           n == Len(tests)
       IN /\ n > 0
          /\ DocSize(results[OtherFolder]) < MaxDocSize
          /\ \E frame \in FrameIndices :
                results' = [results EXCEPT ![OtherFolder].tests[n].diff =
                               Append(@, [frame |-> frame, renderElements |-> <<>>])]
    /\ UNCHANGED <<producing, session, reporting, outcome>>

\* The test runner records one more render element in its current frame group
ProducerAddElement ==
    /\ producing
    /\ DocSize(results[OtherFolder]) < MaxDocSize
    /\ LET tests == results[OtherFolder].tests
           n == Len(tests)
       IN /\ n > 0
          /\ Len(tests[n].diff) > 0
          /\ LET g == Len(tests[n].diff)
             IN \E p \in Payloads :
                      results' = [results EXCEPT
                          ![OtherFolder].tests[n].diff[g].renderElements = Append(@, p)]
    /\ UNCHANGED <<producing, session, reporting, outcome>>

\* The test run ends; its folder can be opened from now on
ProducerFinish ==
    /\ producing
    /\ producing' = FALSE
    /\ UNCHANGED <<results, session, reporting, outcome>>

\* The test run ends and writes its duration into the version mapping
ProducerFinishWithDuration ==
    /\ producing
    /\ producing' = FALSE
    /\ \E d \in Durations :
          results' = [results EXCEPT ![OtherFolder].version = [duration |-> d]]
    /\ UNCHANGED <<session, reporting, outcome>>

\* Variant: self.cwd = Path(folder) ahead of load_json_results, so that the
\* run root is the new folder even when the header fails to parse
load_CwdFirst(folder) ==
    /\ UNCHANGED <<results, producing, reporting>>
    /\ IF folder = ""
       THEN UNCHANGED <<session, outcome>>
       ELSE LET doc == results[folder]
            IN /\ results_json' = doc
               /\ cwd' = folder
               /\ IF ~HeaderParses(doc)
                  THEN /\ outcome' = Done("load", "ValueError")
                       /\ UNCHANGED <<test_header, test_results, model>>
                  ELSE /\ test_header' = load_test_header(doc)
                       /\ test_results' =
                              [i \in DOMAIN Get(doc, "tests", <<>>) |-> load_test_result(doc.tests[i])]
                       /\ model' = populate_tree_view(test_results')
                       /\ outcome' = Done("load", "")

\* MainWindow.load with load_json_results and populate_tree_view; folder is
\* the directory picked in the dialog, "" when the dialog is cancelled
load(folder) ==
    /\ UNCHANGED <<results, producing, reporting>>
    /\ IF folder = ""
       THEN UNCHANGED <<session, outcome>>
       ELSE LET doc == results[folder]
            IN /\ results_json' = doc
               /\ IF ~HeaderParses(doc)
                  THEN /\ outcome' = Done("load", "ValueError")
                       /\ UNCHANGED <<test_header, test_results, cwd, model>>
                  ELSE /\ test_header' = load_test_header(doc)
                       /\ test_results' =
                              [i \in DOMAIN Get(doc, "tests", <<>>) |-> load_test_result(doc.tests[i])]
                       /\ cwd' = folder
                       /\ model' = populate_tree_view(test_results')
                       /\ outcome' = Done("load", "")

\* actionLoad: the user picks the folder of the second run in the dialog, or
\* cancels the dialog
Load ==
    /\ ~producing
    /\ \E folder \in {"", OtherFolder} : load(folder)

\* A list object created while old is still referenced: its identity differs
\* from that of old
NewList(rows, old) ==
    [type |-> "list", val |-> rows, id |-> IF old.type = "list" THEN 1 - old.id ELSE 0]

\* MainWindow.generate_report
generate_report ==
    /\ UNCHANGED <<results, producing, session, report>>
    /\ IF Truthy(report)
       THEN /\ outcome' = Done("generate_report", "")
            /\ UNCHANGED <<_report, report_df, stats, report_csv>>
       ELSE LET r == GenerateReport(model, 0)
                frame == r.report
                filtered == SelectSeq(frame, LAMBDA row : PyNe(row.directory, EXCLUDED))
            IN CASE r.exc /= "" ->
                      /\ outcome' = Done("generate_report", r.exc)
                      /\ UNCHANGED <<_report, report_df, stats, report_csv>>
                 [] r.exc = "" /\ frame = <<>> ->
                      \* a frame without columns: report_df["directory"]
                      /\ _report' = NewList(frame, _report)
                      /\ report_df' = [type |-> "DataFrame", val |-> frame]
                      /\ outcome' = Done("generate_report", "KeyError")
                      /\ UNCHANGED <<stats, report_csv>>
                 [] r.exc = "" /\ frame /= <<>> /\ filtered = <<>> ->
                      /\ _report' = NewList(frame, _report)
                      /\ report_df' = [type |-> "DataFrame", val |-> filtered]
                      /\ stats' = PartialSummary(filtered)
                      /\ outcome' = Done("generate_report", "ZeroDivisionError")
                      /\ UNCHANGED report_csv
                 [] OTHER ->
                      /\ _report' = NewList(frame, _report)
                      /\ report_df' = [type |-> "DataFrame", val |-> filtered]
                      /\ stats' = Summary(filtered)
                      /\ report_csv' = [report_csv EXCEPT ![cwd] = to_csv(filtered)]
                      /\ outcome' = Done("generate_report", "")

\* actionReport: the user asks for the report.  The viewer reads OtherFolder
\* only after the test run has ended, and every interleaving of the test
\* runner with the viewer reorders to one in which the test runner goes
\* first, so the user's commands wait for the run to end.
Report ==
    /\ ~producing
    /\ generate_report

Next ==
    \/ ProducerAddTest
    \/ ProducerAddGroup
    \/ ProducerAddElement
    \/ ProducerFinish
    \/ ProducerFinishWithDuration
    \/ Load
    \/ Report

Spec == Init /\ [][Next]_vars

\* ------------------------------------------------- single-sample documents
\* The viewer started on a folder whose document has one test with one frame
\* group holding one render element, the element's fields ranging over every
\* pair of paths, both names, and the statuses and delta counts below.
Names == {"beauty", "diffuse"}
Statuses == {"ok", "failed"}

SampleDoc(f, frame, p) ==
    [version |-> <<>>,
     tests |-> << [TestEntry(f) EXCEPT !.diff = << [frame |-> frame, renderElements |-> <<p>>] >>] >>]

SampleDocs ==
    { SampleDoc(f, 0, Payload(name, run, ref, delta, status)) :
        f \in TestFiles, name \in Names, run \in ImagePaths, ref \in ImagePaths,
        delta \in 0..MaxDelta, status \in Statuses }

InitSample ==
    /\ \E doc \in SampleDocs :
          /\ results = [f \in Folders |-> IF f = DefaultFolder THEN doc ELSE EmptyDoc]
          /\ results_json = doc
          /\ test_header = load_test_header(doc)
          /\ test_results = [i \in DOMAIN doc.tests |-> load_test_result(doc.tests[i])]
    /\ producing = FALSE
    /\ report_csv = [f \in Folders |-> NoFile]
    /\ cwd = DefaultFolder
    /\ model = populate_tree_view(test_results)
    /\ report = PyNone
    /\ _report = PyNone
    /\ report_df = PyNone
    /\ stats = NoStats
    /\ outcome = Done("__init__", "")

NextSample ==
    \/ Load
    \/ Report

SpecSample == InitSample /\ [][NextSample]_vars

\* ------------------------------------------------------------- properties
Range(f) == { f[i] : i \in DOMAIN f }
Count(x, sq) == Cardinality({ i \in DOMAIN sq : sq[i] = x })

\* The samples of one loaded test, name by name, and of the whole run
SamplesOfTest(t) == Concat([d \in DOMAIN t.diff |-> t.diff[d].elements])
TotalSamples == SeqSum([i \in DOMAIN test_results |-> Len(SamplesOfTest(test_results[i]))])

\* The last handler was generate_report and it returned normally
Reported == outcome = Done("generate_report", "")
\* The last handler was generate_report and GenerateReport returned its rows
FreshReport ==
    /\ outcome.op = "generate_report" /\ outcome.exc \notin {"TypeError", "cv2.error"}
    /\ _report.type = "list"

\* The distinct parent directories of the loaded tests, by first appearance
RECURSIVE DirsOf(_, _)
DirsOf(seen, tests) ==
    IF tests = <<>> THEN seen
    ELSE LET d == Parent(Head(tests).file_path)
         IN DirsOf(IF d \in Range(seen) THEN seen ELSE Append(seen, d), Tail(tests))

\* (directory, test, element, sample) in the order the report is to have
ExpectedOrder ==
    LET dirs == DirsOf(<<>>, test_results)
    IN Concat([k \in DOMAIN dirs |->
          Concat([i \in DOMAIN test_results |->
             LET t == test_results[i] IN
             IF Parent(t.file_path) /= dirs[k] THEN <<>>
             ELSE Concat([d \in DOMAIN t.diff |->
                     [e \in DOMAIN t.diff[d].elements |->
                         [dir |-> dirs[k], test |-> t.file_name, name |-> t.diff[d].name,
                          element |-> t.diff[d].elements[e]]]])])])

RowMatches(row, x) ==
    /\ row.directory.val = x.dir
    /\ row.test = x.test
    /\ row.element = x.name
    /\ row.diff_count_pre_computed = x.element.delta_count

\* C1: after generate_report on a loaded run the report has exactly one row
\* per sample, in the order directory group, test in load order, element
\* name in diff-index order, sample in ascending-frame order.
C1_OneRowPerSample ==
    outcome.op = "generate_report" =>
        /\ FreshReport
        /\ Len(_report.val) = TotalSamples
        /\ Len(_report.val) = Len(ExpectedOrder)
        /\ \A i \in DOMAIN _report.val : RowMatches(_report.val[i], ExpectedOrder[i])

\* C2: a generate_report call that follows a completed generate_report on the
\* same loaded run changes nothing: the same row objects, the same table, no
\* rewrite of report.csv.
C2_SecondCallNoOp ==
    [][(Reported /\ outcome'.op = "generate_report") =>
          (_report' = _report /\ report_df' = report_df /\ report_csv' = report_csv)]_vars

\* A sample one of whose files exists but does not decode
Unreadable(x) ==
    /\ IsFile(x.run_file) /\ IsFile(x.ref_file)
    /\ (imread(x.run_file).kind = "None" \/ imread(x.ref_file).kind = "None")

AllSamples == Concat([i \in DOMAIN test_results |-> SamplesOfTest(test_results[i])])

\* C3: when a sample's file exists but cannot be decoded, no exception leaves
\* the aggregation: generate_report still yields a row for every sample and
\* the rows of the undecodable samples are HARD.
C3_FailuresRecovered ==
    (outcome.op = "generate_report" /\ \E i \in DOMAIN AllSamples : Unreadable(AllSamples[i])) =>
        /\ outcome.exc \notin {"TypeError", "cv2.error"}
        /\ FreshReport
        /\ Len(_report.val) = TotalSamples
        /\ \A i \in DOMAIN _report.val :
              Unreadable(ExpectedOrder[i].element) => _report.val[i].problem_level = HARD

\* The one sample and the one row of a single-sample run
OneSample == Len(test_results) = 1 /\ TotalSamples = 1
TheSample == AllSamples[1]
TheRow == _report.val[1]

ShapeMismatch(x) ==
    /\ IsFile(x.run_file) /\ IsFile(x.ref_file)
    /\ imread(x.run_file).kind = "image" /\ imread(x.ref_file).kind = "image"
    /\ imread(x.run_file).shape /= imread(x.ref_file).shape

\* C4: when both images exist and decode but differ in pixel dimensions, the
\* comparison is not computable and the sample's row is HARD.
C4_MismatchIsHard ==
    (outcome.op = "generate_report" /\ OneSample /\ ShapeMismatch(TheSample)) =>
        /\ outcome.exc = ""
        /\ FreshReport
        /\ Len(_report.val) = 1
        /\ TheRow.problem_level = HARD

\* C5: no row of the excluded directory "emulation" is in the persisted
\* table, and the summary counts none of them.
C5_EmulationExcluded ==
    Reported =>
        /\ \A i \in DOMAIN report_csv[cwd].rows :
              report_csv[cwd].rows[i].directory.val /= <<"emulation">>
        /\ stats.total_entries =
              Cardinality({ i \in DOMAIN _report.val :
                               _report.val[i].directory.val /= <<"emulation">> })

HardCountOf(d) ==
    IF d \in DOMAIN stats.failed_tests_by_directory
    THEN stats.failed_tests_by_directory[d] ELSE 0

\* C6: the HARD-row counts grouped by directory count, for every directory,
\* the HARD rows of that directory in the filtered table, and they sum to
\* the numerator of the HARD-to-total ratio.
C6_HardByDirectory ==
    Reported =>
        LET df == report_df.val
            dirs == { df[i].directory : i \in DOMAIN df }
        IN /\ \A d \in dirs :
                 HardCountOf(d) = Cardinality({ i \in DOMAIN df :
                     df[i].directory = d /\ df[i].problem_level = HARD })
           /\ Len(stats.failed_tests) = stats.failed_tests_ratio.num
           /\ SumOver([d \in dirs |-> HardCountOf(d)], dirs) = stats.failed_tests_ratio.num

\* A sample one of whose paths names no existing regular file
Missing(x) == x.run_file \notin DOMAIN Disk \/ x.ref_file \notin DOMAIN Disk

\* A sample whose two files exist, decode and have the same dimensions
Computable(x) ==
    /\ ~Missing(x)
    /\ Disk[x.run_file].kind = "image" /\ Disk[x.ref_file].kind = "image"
    /\ Disk[x.run_file].shape = Disk[x.ref_file].shape

C8_Classification ==
    (Reported /\ OneSample) =>
        /\ FreshReport /\ Len(_report.val) = 1
        /\ Computable(TheSample) =>
              /\ TheRow.SSIM = ssim(Disk[TheSample.run_file], Disk[TheSample.ref_file])
              /\ (TheRow.problem_level = GOOD) <=> (TheRow.SSIM > 9500)
              /\ (TheRow.problem_level = SOFT) <=> (TheRow.SSIM <= 9500)
              /\ TheRow.message = TheSample.status
        /\ (TheRow.problem_level = HARD) <=> ~Computable(TheSample)

\* A row with SSIM exactly 0.95, classified SOFT
C8_Witness ==
    /\ Reported /\ OneSample /\ FreshReport
    /\ Computable(TheSample)
    /\ TheRow.SSIM = 9500
    /\ TheRow.problem_level = SOFT

Clamp(x, lo, hi) == IF x < lo THEN lo ELSE IF x > hi THEN hi ELSE x
Floor(q) == q.num \div q.den
RatDiv(q, n) == Rat(q.num, q.den * n)

\* C9: the level of a computable comparison with 0 <= diff <= total, total > 0
\* is clamp(floor(diff_percentage / 5), 0, 20) with diff_percentage =
\* diff / total * 100; every level is in 0..20; 0% gives 0, 12.5% gives 2 and
\* 100% gives 20.
C9_LevelBucket ==
    (Reported /\ OneSample) =>
        /\ FreshReport /\ Len(_report.val) = 1
        /\ TheRow.level \in 0..20
        /\ Computable(TheSample) =>
              LET d == TheRow.diff_count
                  t == TheRow.pixel_count
              IN /\ t > 0 /\ 0 <= d /\ d <= t
                 /\ TheRow.diff_percentage = Rat(d * 100, t)
                 /\ TheRow.level = Clamp(Floor(RatDiv(TheRow.diff_percentage, 5)), 0, 20)
                 /\ d = 0 => TheRow.level = 0
                 /\ 8 * d = t => TheRow.level = 2
                 /\ d = t => TheRow.level = 20

\* A row of a comparison in which 12.5% of the pixels differ, at level 2
C9_Witness ==
    /\ Reported /\ OneSample /\ FreshReport
    /\ Computable(TheSample)
    /\ TheRow.pixel_count > 0 /\ 8 * TheRow.diff_count = TheRow.pixel_count
    /\ TheRow.level = 2

\* The payloads of one test of a document, each with its group's frame index
DocSamples(test) ==
    Concat([g \in DOMAIN test.diff |->
        [e \in DOMAIN test.diff[g].renderElements |->
            LET p == test.diff[g].renderElements[e]
            IN [frame |-> test.diff[g].frame, name |-> p.name, delta_count |-> p.deltaCount,
                status |-> p.status, exit_code |-> p.exitCode,
                ref_file |-> p.refFile, run_file |-> p.runFile]]])

\* C10: the loaded TestResult list has one entry per test of the document, in
\* document order; the samples of each test are as many as the payloads of
\* its frame groups, each sample with the frame index of its group.
C10_LoadComplete ==
    HeaderParses(results_json) =>
        /\ Len(test_results) = Len(results_json.tests)
        /\ \A i \in DOMAIN test_results :
              LET t == results_json.tests[i]
                  loaded == SamplesOfTest(test_results[i])
              IN /\ test_results[i].file_name = t.fileName
                 /\ test_results[i].file_path = t.file
                 /\ Len(loaded) = Len(DocSamples(t))
                 /\ \A x \in Range(DocSamples(t)) \cup Range(loaded) :
                       Count(x, loaded) = Count(x, DocSamples(t))

\* A document loaded from the second folder in which one name has samples of
\* two frame groups with different frame indices
C10_Witness ==
    /\ cwd = OtherFolder /\ outcome = Done("load", "")
    /\ Len(test_results) = Len(results_json.tests) /\ Len(test_results) > 0
    /\ \E i \in DOMAIN test_results : \E d \in DOMAIN test_results[i].diff :
          LET es == test_results[i].diff[d].elements
          IN Len(es) = 2 /\ es[1].frame /= es[2].frame

\* The samples of one name in a test of the document, in document order
InputOfName(test, name) == SelectSeq(DocSamples(test), LAMBDA s : s.name = name)

\* C11: after a load, for every TestResult and every render-element name, the
\* frame indices of the sample sequence never decrease, whatever the order of
\* the frame groups in the document, and the samples of that name with one
\* frame index are in the order in which the document lists them.
C11_SortedStable ==
    HeaderParses(results_json) =>
        \A i \in DOMAIN test_results : \A d \in DOMAIN test_results[i].diff :
            LET item == test_results[i].diff[d]
                es == item.elements
                input == InputOfName(results_json.tests[i], item.name)
            IN /\ \A a, b \in DOMAIN es : a < b => es[a].frame <= es[b].frame
               /\ \A f \in { input[k].frame : k \in DOMAIN input } \cup
                            { es[k].frame : k \in DOMAIN es } :
                     SelectSeq(es, LAMBDA s : s.frame = f) =
                         SelectSeq(input, LAMBDA s : s.frame = f)

\* A loaded document that lists a frame group of higher frame index before
\* one of lower frame index for the same name: the two samples are swapped
C11_Witness ==
    /\ cwd = OtherFolder /\ outcome = Done("load", "")
    /\ \E i \in DOMAIN test_results : \E d \in DOMAIN test_results[i].diff :
          LET item == test_results[i].diff[d]
              input == InputOfName(results_json.tests[i], item.name)
          IN /\ Len(input) = 2 /\ input[1].frame > input[2].frame
             /\ item.elements = <<input[2], input[1]>>

\* C12: a load whose document has a duration that is not three
\* colon-separated integers ends with ValueError raised to the caller, and
\* the step leaves the session's header, TestResult list, run root and tree
\* exactly as the previous load left them: the header is not one built from
\* the new document.
C12_FailedLoadKeepsSession ==
    [][(outcome'.op = "load" /\ ~HeaderParses(results_json')) =>
          /\ outcome'.exc = "ValueError"
          /\ test_header' = test_header
          /\ test_results' = test_results
          /\ cwd' = cwd
          /\ model' = model
          /\ test_header'.version /= results_json'.version]_vars

\* The second folder's document, with tests and an unparsable duration, was
\* read and the load failed: header, TestResult list and run root are still
\* those of the start-up load
C12_Witness ==
    /\ outcome = Done("load", "ValueError")
    /\ results_json = results[OtherFolder] /\ Len(results_json.tests) > 0
    /\ ~HeaderParses(results_json)
    /\ cwd = DefaultFolder
    /\ test_header = load_test_header(DefaultDoc)
    /\ test_results = [i \in DOMAIN DefaultDoc.tests |-> load_test_result(DefaultDoc.tests[i])]
    /\ test_results /= [i \in DOMAIN results_json.tests |-> load_test_result(results_json.tests[i])]

\* C13 for a loaded run with zero samples: generate_report ends without an
\* exception and report.csv under the current run root holds the table
\* without rows.
C13_EmptyRunReported ==
    (outcome.op = "generate_report" /\ TotalSamples = 0) =>
        /\ outcome.exc = ""
        /\ report_csv[cwd] = to_csv(<<>>)

====
